---- MODULE Spec2Model ----
(***************************************************************************)
(* Per-connection UDP forwarding core of the weave router                  *)
(* (src/forwarder.go): the lifecycle calls ensureForwarders and            *)
(* stopForwarders, the two forwarderLoop goroutines of each generation of  *)
(* forward channels, the dispatcher Forward with its fragmenter, and the   *)
(* path-MTU bookkeeping shared between them.                               *)
(***************************************************************************)
EXTENDS Integers, Sequences, FiniteSets, TLC

\* ------------------------------------------------------------ bounds

\* Generations of forward channels ensureForwarders may create.
MaxGen == 2
\* Capacity of a forward channel (ChannelSize in the program, scaled down).
ChannelSize == 1
\* Forward calls made in one behaviour.
MaxCalls == 2
\* FrameTooBig results the raw-IP sender returns in one behaviour.
MaxFTB == 1
\* PMTU verify timer expiries in one behaviour.
MaxTicks == 1

\* ------------------------------------------------------------ program constants

EthernetOverhead == 14
UDPOverhead == 28
DefaultPMTU == 65535
MinPMTU == 68
\* Size of a peer name, the datagram prefix and the per-frame peer ids.
NameSize == 6
\* Nonce and authenticator the keyed encryptor adds to a datagram.
NaClOverhead == 24
\* clientPMTU -= 10 on an unverified tick.
PMTUVerifyStep == 10
\* for cnt := 0; cnt < 10: verification datagrams per update.
PMTUVerifyCopies == 10
\* Length of an IPv4 header without options (IHL = 5).
IPv4HeaderLen == 20

Producers == {"p1", "p2"}
Callers == {"c1", "c2"}
Dirs == {"ndf", "df"}
Gens == 1..MaxGen
LoopIds == Gens \X Dirs
\* Path MTUs the kernel reports after EMSGSIZE (getsockopt IP_MTU).
PMTUs == {120, 76}

\* ------------------------------------------------------------ encryptor

\* Bytes the encryptor adds per datagram whatever the frame count.
PacketOverhead(usingPassword) ==
    IF usingPassword THEN NameSize + NaClOverhead ELSE NameSize

\* Bytes AppendFrame adds beyond the frame: length field, src and dst peer.
FrameOverhead == NameSize + NameSize + 2

RECURSIVE FramedLen(_)
FramedLen(frames) ==
    IF frames = <<>> THEN 0
    ELSE FrameOverhead + Head(frames).len + FramedLen(Tail(frames))

\* Bytes committed to the datagram in flight, its fixed header included.
TotalLen(usingPassword, frames) == PacketOverhead(usingPassword) + FramedLen(frames)

\* enc.Bytes(): the serialized batch (the builder is reset by the caller's
\* batch' = <<>>).
Bytes(usingPassword, frames) ==
    [len |-> TotalLen(usingPassword, frames), frames |-> frames]

\* ------------------------------------------------------------ fragmenter

\* No bit cleared.
ClearNone(x) == x

\* x &^ 7 on a two's-complement int.
ClearLow3(x) == x - (x % 8)

Uint16(x) == x % 65536

\* The segment size without room for the Ethernet and IP headers.
MaxSegmentSizeNoHeaders(pmtu, headerSize) == ClearLow3(pmtu)

MaxSegmentSize(pmtu, headerSize) == ClearLow3(pmtu - EthernetOverhead - headerSize)

\* A segment with its fragment offset in bytes, not in 8-byte units.
SegmentByteOffset(headerSize, size, start, offset, offsetBase, mf) ==
    [len |-> EthernetOverhead + headerSize + size,
     off |-> Uint16(offset + offsetBase),
     mf |-> mf, ihl |-> headerSize \div 4, kind |-> "seg", start |-> start]

\* One segFrame: the headers and size bytes of the IP payload, copied from
\* its byte position start.
Segment(headerSize, size, start, offset, offsetBase, mf) ==
    [len |-> EthernetOverhead + headerSize + size,
     off |-> Uint16((offset + offsetBase) \div 8),
     mf |-> mf, ihl |-> headerSize \div 4, kind |-> "seg", start |-> start]

\* The for loop of fragment, for maxSegmentSize > 0: payload is len(payload),
\* so the slice payload begins at byte payloadSize - payload.
RECURSIVE FragmentLoop(_, _, _, _, _, _, _)
FragmentLoop(offset, payload, payloadSize, maxSegmentSize, headerSize, offsetBase, origMF) ==
    IF ~(offset < payloadSize) THEN <<>>
    ELSE IF payload <= maxSegmentSize
         THEN <<Segment(headerSize, payload, payloadSize - payload, offset, offsetBase,
                        origMF)>>
              \o FragmentLoop(offset + maxSegmentSize, payload, payloadSize,
                              maxSegmentSize, headerSize, offsetBase, origMF)
         ELSE <<Segment(headerSize, maxSegmentSize, payloadSize - payload, offset,
                        offsetBase, TRUE)>>
              \o FragmentLoop(offset + maxSegmentSize, payload - maxSegmentSize,
                              payloadSize, maxSegmentSize, headerSize, offsetBase, origMF)

\* fragment(eth, ip, pmtu, frame, forward): the segments handed to forward.
\* With maxSegmentSize = 0 the loop never advances and emits the same
\* header-only segment for ever ("spin"); with maxSegmentSize < 0 the slice
\* payload[:maxSegmentSize] panics before anything is emitted ("panic").
Fragment(pmtu, frame) ==
    LET headerSize == frame.ihl * 4
        maxSegmentSize == MaxSegmentSize(pmtu, headerSize)
        payloadSize == (frame.len - EthernetOverhead) - headerSize
        offsetBase == frame.off * 8
    IN  IF payloadSize <= 0 THEN [outcome |-> "ok", segs |-> <<>>]
        ELSE IF maxSegmentSize > 0
        THEN [outcome |-> "ok",
              segs |-> FragmentLoop(0, payloadSize, payloadSize, maxSegmentSize,
                                    headerSize, offsetBase, frame.mf)]
        ELSE IF maxSegmentSize = 0
        THEN [outcome |-> "spin",
              segs |-> <<Segment(headerSize, 0, 0, 0, offsetBase, TRUE)>>]
        ELSE [outcome |-> "panic", segs |-> <<>>]

\* ------------------------------------------------------------ state

VARIABLES
    conn,       \* the LocalConnection fields this file reads and writes
    nextGen,    \* generations of channels and raw senders created so far
    rawSender,  \* per generation: the raw-IP socket: "none", "open", "closed"
    queue,      \* per forwarderLoop: the frames buffered in its forward channel
    loop,       \* per forwarderLoop: its position and its local variables
    io,         \* what the last step took in and let out: the Forward call
                \* it started, the datagrams it handed to a UDP sender, the
                \* error it returned to a caller, a fatal error
    lc,         \* per lifecycle caller: its position in ensure/stopForwarders
    prod,       \* per producer: its position in Forward and its locals
    nFTB,       \* FrameTooBig results returned so far
    nTicks,     \* verify timer expiries so far
    active      \* the callers that make lifecycle calls

vars == <<conn, nextGen, rawSender, queue, loop, io, lc, prod, nFTB, nTicks, active>>

NoLoop == [pc |-> "none", maxPayload |-> 0, clientPMTU |-> 0, tick |-> FALSE, batch |-> <<>>]

NoFrame == [len |-> 0, ihl |-> 0, off |-> 0, mf |-> FALSE, kind |-> "frame"]

NoSnapshot == [forwardChan |-> 0, forwardChanDF |-> 0, clientPMTU |-> 0, stackFrag |-> FALSE]

\* No call: a call names the function called, "Forward" or "fragment", and
\* has a frame of positive length.
NoCall ==
    [fn |-> "none", df |-> FALSE, dec |-> "nil", frame |-> NoFrame, snap |-> NoSnapshot]

\* The error a call returns: "nil", "err" (from NewRawUDPSender) or
\* "FrameTooBig", which carries the PMTU and the frame.
NoReturn == [err |-> "nil", pmtu |-> 0, frame |-> NoFrame]

\* A producer outside Forward: n counts its calls. Inside, target is the
\* channel it sends on, pending the frames still to send, clientPMTU the
\* value it read.
IdleProducer ==
    [pc |-> "idle", n |-> 0, clientPMTU |-> 0, target |-> <<0, "ndf">>, pending |-> <<>>]

\* A lifecycle caller between calls: "idle"; "ensured" when the call it is
\* back from is an ensureForwarders that returned nil, "stopped" when it is
\* stopForwarders.
IdleCaller == [pc |-> "idle", gen |-> 0, target |-> 0]

EnsuredCaller == [IdleCaller EXCEPT !.pc = "ensured"]

StoppedCaller == [IdleCaller EXCEPT !.pc = "stopped"]

Between(c) == lc[c].pc \in {"idle", "ensured", "stopped"}

NoOutput == [call |-> NoCall, sent |-> <<>>, ret |-> NoReturn, fatal |-> FALSE]

\* Datagrams msgs handed to the sender; fatal: conn.CheckFatal got an error.
Sent(msgs, fatal) == [NoOutput EXCEPT !.sent = msgs, !.fatal = fatal]

\* The step returned the error ret to its caller (nil: NoOutput).
ReturnedErr(ret) == [NoOutput EXCEPT !.ret = ret]

\* The step started the Forward call and, if ret is an error, returned it.
Called(call, ret) == [NoOutput EXCEPT !.call = call, !.ret = ret]

\* A connection before its first ensureForwarders: no channels, clientPMTU at
\* its initial DefaultPMTU, not yet verified.
InitWith(callers, stackFrags, passwords) ==
    /\ \E sf \in stackFrags, pw \in passwords :
         conn = [forwardChan |-> 0, forwardChanDF |-> 0,
                 stopForward |-> 0, stopForwardDF |-> 0,
                 clientPMTU |-> DefaultPMTU, verified |-> FALSE,
                 stackFrag |-> sf, usingPassword |-> pw]
    /\ nextGen = 0
    /\ rawSender = [g \in Gens |-> "none"]
    /\ queue = [id \in LoopIds |-> <<>>]
    /\ loop = [id \in LoopIds |-> NoLoop]
    /\ io = NoOutput
    /\ lc = [c \in Callers |-> IdleCaller]
    /\ prod = [p \in Producers |-> IdleProducer]
    /\ nFTB = 0
    /\ nTicks = 0
    /\ active = callers

\* Lifecycle calls come from the connection's own task, one at a time.
Init == InitWith({"c1"}, BOOLEAN, BOOLEAN)

\* Lifecycle calls come from two tasks at once.
InitConc == InitWith(Callers, BOOLEAN, BOOLEAN)

\* ------------------------------------------------------------ lifecycle

\* The check that never finds the channels.
ForwardersNeverExist(c) == FALSE

\* if conn.forwardChan != nil || conn.forwardChanDF != nil
ForwardersExist(c) == c.forwardChan # 0 \/ c.forwardChanDF # 0

\* ensureForwarders, the check that opens it: return nil when the channels
\* exist.
EnsureCheck(c) ==
    /\ c \in active
    /\ Between(c)
    /\ IF ForwardersExist(conn)
       THEN lc' = [lc EXCEPT ![c] = EnsuredCaller]
       ELSE lc' = [lc EXCEPT ![c].pc = "create"]
    /\ io' = NoOutput
    /\ UNCHANGED <<conn, nextGen, rawSender, queue, loop, prod, nFTB, nTicks, active>>

\* NewRawUDPSender (the only step that can fail), the encryptors and the four
\* channels of a new generation. After MaxGen generations no further socket
\* can be had.
EnsureCreate(c) ==
    /\ lc[c].pc = "create"
    /\ \E ok \in {b \in BOOLEAN : b => nextGen < MaxGen} :
         IF ok
         THEN /\ nextGen' = nextGen + 1
              /\ rawSender' = [rawSender EXCEPT ![nextGen + 1] = "open"]
              /\ lc' = [lc EXCEPT ![c].pc = "install", ![c].gen = nextGen + 1]
              /\ io' = NoOutput
         ELSE /\ lc' = [lc EXCEPT ![c] = IdleCaller]
              /\ io' = ReturnedErr([NoReturn EXCEPT !.err = "err"])
              /\ UNCHANGED <<nextGen, rawSender>>
    /\ UNCHANGED <<conn, queue, loop, prod, nFTB, nTicks, active>>

\* The locked section with the DF channel's assignment left out.
EnsureInstallNonDFOnly(c) ==
    /\ lc[c].pc = "install"
    /\ conn' = [conn EXCEPT !.forwardChan = lc[c].gen,
                            !.stopForward = lc[c].gen, !.stopForwardDF = lc[c].gen]
    /\ lc' = [lc EXCEPT ![c].pc = "spawn"]
    /\ io' = NoOutput
    /\ UNCHANGED <<nextGen, rawSender, queue, loop, prod, nFTB, nTicks, active>>

\* conn.Lock(); the four handles; conn.Unlock()
EnsureInstall(c) ==
    /\ lc[c].pc = "install"
    /\ conn' = [conn EXCEPT !.forwardChan = lc[c].gen, !.forwardChanDF = lc[c].gen,
                            !.stopForward = lc[c].gen, !.stopForwardDF = lc[c].gen]
    /\ lc' = [lc EXCEPT ![c].pc = "spawn"]
    /\ io' = NoOutput
    /\ UNCHANGED <<nextGen, rawSender, queue, loop, prod, nFTB, nTicks, active>>

\* forwarderLoop's prologue: maxPayload := pmtu - UDPOverhead
StartLoop(pmtu) ==
    [pc |-> "outer", maxPayload |-> pmtu - UDPOverhead, clientPMTU |-> 0,
     tick |-> FALSE, batch |-> <<>>]

\* go conn.forwarderLoop(forwardChan, stopForward, encryptor, simple sender, DefaultPMTU)
EnsureSpawn(c) ==
    /\ lc[c].pc = "spawn"
    /\ loop' = [loop EXCEPT ![<<lc[c].gen, "ndf">>] = StartLoop(DefaultPMTU)]
    /\ lc' = [lc EXCEPT ![c].pc = "spawnDF"]
    /\ io' = NoOutput
    /\ UNCHANGED <<conn, nextGen, rawSender, queue, prod, nFTB, nTicks, active>>

\* go conn.forwarderLoop(forwardChanDF, stopForwardDF, encryptorDF, rawUDPSender,
\* conn.clientPMTU); return nil
EnsureSpawnDF(c) ==
    /\ lc[c].pc = "spawnDF"
    /\ loop' = [loop EXCEPT ![<<lc[c].gen, "df">>] = StartLoop(conn.clientPMTU)]
    /\ lc' = [lc EXCEPT ![c] = EnsuredCaller]
    /\ io' = NoOutput
    /\ UNCHANGED <<conn, nextGen, rawSender, queue, prod, nFTB, nTicks, active>>

\* Only the non-DF channel set to nil.
NullForwardChanOnly(c) == [c EXCEPT !.forwardChan = 0]

\* stopForwarders: the two forward channels set to nil under the lock.
NullForwardChans(c) == [c EXCEPT !.forwardChan = 0, !.forwardChanDF = 0]

StopNull(c) ==
    /\ c \in active
    /\ Between(c)
    /\ conn' = NullForwardChans(conn)
    /\ lc' = [lc EXCEPT ![c].pc = "check"]
    /\ io' = NoOutput
    /\ UNCHANGED <<nextGen, rawSender, queue, loop, prod, nFTB, nTicks, active>>

\* if conn.stopForward != nil: start the send on conn.stopForward
StopCheck(c) ==
    /\ lc[c].pc = "check"
    /\ IF conn.stopForward # 0
       THEN lc' = [lc EXCEPT ![c].pc = "send", ![c].target = conn.stopForward]
       ELSE lc' = [lc EXCEPT ![c] = StoppedCaller]
    /\ io' = NoOutput
    /\ UNCHANGED <<conn, nextGen, rawSender, queue, loop, prod, nFTB, nTicks, active>>

\* The stop channels are unbuffered: a send completes when the forwarderLoop
\* that holds the channel receives at its outer select (case <-stop), after
\* which the sender goes on to conn.stopForwardDF, or returns.
LoopStop(id) ==
    /\ loop[id].pc = "outer"
    /\ \E c \in Callers :
         /\ lc[c].pc = (IF id[2] = "ndf" THEN "send" ELSE "sendDF")
         /\ lc[c].target = id[1]
         /\ lc' = IF id[2] = "ndf"
                  THEN [lc EXCEPT ![c].pc = "sendDF", ![c].target = conn.stopForwardDF]
                  ELSE [lc EXCEPT ![c] = StoppedCaller]
    /\ loop' = [loop EXCEPT ![id] = [NoLoop EXCEPT !.pc = "drain"]]
    /\ io' = NoOutput
    /\ UNCHANGED <<conn, nextGen, rawSender, queue, prod, nFTB, nTicks, active>>

\* drain: case <-forwardCh
DrainRecv(id) ==
    /\ loop[id].pc = "drain"
    /\ queue[id] # <<>>
    /\ queue' = [queue EXCEPT ![id] = Tail(queue[id])]
    /\ io' = NoOutput
    /\ UNCHANGED <<conn, nextGen, rawSender, loop, lc, prod, nFTB, nTicks, active>>

\* drain: default: return; then the deferred udpSender.Shutdown(), which
\* closes the socket of the raw sender and does nothing for the simple one.
DrainDone(id) ==
    /\ loop[id].pc = "drain"
    /\ queue[id] = <<>>
    /\ loop' = [loop EXCEPT ![id] = [NoLoop EXCEPT !.pc = "exited"]]
    /\ rawSender' = IF id[2] = "df" THEN [rawSender EXCEPT ![id[1]] = "closed"]
                    ELSE rawSender
    /\ io' = NoOutput
    /\ UNCHANGED <<conn, nextGen, queue, lc, prod, nFTB, nTicks, active>>

\* ------------------------------------------------------------ forwarderLoop

\* conn.setClientPMTU: the write through the connection lock; the value
\* written has not been acknowledged by the remote peer yet.
SetClientPMTU(c, pmtu) == [c EXCEPT !.clientPMTU = pmtu, !.verified = FALSE]

VerifyFrame(clientPMTU) ==
    [len |-> clientPMTU + EthernetOverhead, off |-> 0, mf |-> FALSE, ihl |-> 0,
     kind |-> "verify"]

\* A datagram as the sender gets it, with the maxPayload of that moment, and
\* res, what udpSender.Send returns for it.
Datagram(usingPassword, frames, mp, res) ==
    [len |-> Bytes(usingPassword, frames).len, frames |-> frames, maxPayload |-> mp,
     res |-> res]

\* The verify frame sent once only.
UpdateClientPMTUOnce(l, c, vres) ==
    [loop |-> [l EXCEPT !.batch = <<>>, !.tick = TRUE],
     conn |-> SetClientPMTU(c, l.clientPMTU),
     msgs |-> <<Datagram(c.usingPassword, <<VerifyFrame(l.clientPMTU)>>, l.maxPayload,
                         vres)>>]

\* updateClientPMTU: write conn's clientPMTU, append and send the verify frame
\* ten times, arm the timer. make([]byte, n) with n < 0 panics. vres is what
\* the ten calls of Send return; the code does not look at it.
UpdateClientPMTU(l, c, vres) ==
    LET vf == VerifyFrame(l.clientPMTU)
        pw == c.usingPassword
    IN  IF l.clientPMTU + EthernetOverhead < 0
        THEN [loop |-> [l EXCEPT !.pc = "panic"],
              conn |-> SetClientPMTU(c, l.clientPMTU), msgs |-> <<>>]
        ELSE [loop |-> [l EXCEPT !.batch = <<>>, !.tick = TRUE],
              conn |-> SetClientPMTU(c, l.clientPMTU),
              msgs |-> [i \in 1..PMTUVerifyCopies |->
                          IF i = 1
                          THEN Datagram(pw, l.batch \o <<vf>>, l.maxPayload, vres)
                          ELSE Datagram(pw, <<vf>>, l.maxPayload, vres)]]

\* appendFrame's test: enc.TotalLen()+enc.FrameOverhead()+frameLen > maxPayload
TooBig(usingPassword, batch, frame, maxPayload) ==
    TotalLen(usingPassword, batch) + FrameOverhead + frame.len > maxPayload

\* clientPMTU taken to be all of maxPayload.
AfterFrameTooBigNoOverheads(l, pmtu, usingPassword) ==
    [l EXCEPT !.maxPayload = pmtu - UDPOverhead, !.clientPMTU = pmtu - UDPOverhead]

\* maxPayload and clientPMTU after FrameTooBigError{PMTU: pmtu}
AfterFrameTooBig(l, pmtu, usingPassword) ==
    [l EXCEPT !.maxPayload = pmtu - UDPOverhead,
              !.clientPMTU = (pmtu - UDPOverhead) - PacketOverhead(usingPassword)
                             - FrameOverhead - EthernetOverhead]

\* flush: udpSender.Send(enc.Bytes()) and the handling of its error: fatal
\* says that conn.CheckFatal(err) was called, which tells the connection to
\* shut down.
Flush(l, c, res, vres) ==
    LET d == Datagram(c.usingPassword, l.batch, l.maxPayload, res)
        l1 == [l EXCEPT !.batch = <<>>]
    IN  CASE res.kind = "ftb" ->
               LET u == UpdateClientPMTU(AfterFrameTooBig(l1, res.pmtu, c.usingPassword),
                                         c, vres)
               IN  [loop |-> u.loop, conn |-> u.conn, msgs |-> <<d>> \o u.msgs,
                    fatal |-> FALSE]
          [] res.kind = "error" ->
               [loop |-> l1, conn |-> c, msgs |-> <<d>>, fatal |-> TRUE]
          [] OTHER ->
               [loop |-> l1, conn |-> c, msgs |-> <<d>>, fatal |-> FALSE]

\* What Send may return: nil, ENOBUFS, another error; and, from the raw-IP
\* sender only, FrameTooBigError with the kernel's path MTU.
SendResults(id) ==
    {[kind |-> k, pmtu |-> 0] : k \in {"ok", "enobufs", "error"}}
    \cup (IF id[2] = "df" /\ nFTB < MaxFTB
          THEN {[kind |-> "ftb", pmtu |-> m] : m \in PMTUs} ELSE {})

\* What Send may return for a verify datagram.
VerifyResults(id) ==
    {[kind |-> k, pmtu |-> 0] : k \in {"ok", "enobufs", "error"}}
    \cup (IF id[2] = "df" THEN {[kind |-> "ftb", pmtu |-> m] : m \in PMTUs} ELSE {})

\* case <-pmtuVerifyTick
LoopTick(id) ==
    /\ loop[id].pc = "outer"
    /\ loop[id].tick
    /\ nTicks < MaxTicks
    /\ nTicks' = nTicks + 1
    /\ LET l1 == [loop[id] EXCEPT !.tick = FALSE]
       IN  IF ~conn.verified
           THEN \E vres \in VerifyResults(id) :
                  LET u == UpdateClientPMTU(
                             [l1 EXCEPT !.clientPMTU = l1.clientPMTU - PMTUVerifyStep],
                             conn, vres)
                  IN  /\ loop' = [loop EXCEPT ![id] = u.loop]
                      /\ conn' = u.conn
                      /\ io' = Sent(u.msgs, FALSE)
           ELSE /\ loop' = [loop EXCEPT ![id] = l1]
                /\ UNCHANGED conn
                /\ io' = NoOutput
    /\ UNCHANGED <<nextGen, rawSender, queue, lc, prod, nFTB, active>>

\* case frame = <-forwardCh at the outer select
LoopFrame(id) ==
    /\ loop[id].pc = "outer"
    /\ queue[id] # <<>>
    /\ queue' = [queue EXCEPT ![id] = Tail(queue[id])]
    /\ LET frame == Head(queue[id])
           l == loop[id]
       IN  IF TooBig(conn.usingPassword, l.batch, frame, l.maxPayload)
           THEN loop' = loop
           ELSE loop' = [loop EXCEPT ![id].batch = Append(l.batch, frame),
                                     ![id].pc = "inner"]
    /\ io' = NoOutput
    /\ UNCHANGED <<conn, nextGen, rawSender, lc, prod, nFTB, nTicks, active>>

\* case frame, ok = <-forwardCh in the inner loop
InnerFrame(id) ==
    /\ loop[id].pc = "inner"
    /\ queue[id] # <<>>
    /\ queue' = [queue EXCEPT ![id] = Tail(queue[id])]
    /\ LET frame == Head(queue[id])
           l == loop[id]
           pw == conn.usingPassword
       IN  IF ~TooBig(pw, l.batch, frame, l.maxPayload)
           THEN /\ loop' = [loop EXCEPT ![id].batch = Append(l.batch, frame)]
                /\ io' = NoOutput
                /\ UNCHANGED <<conn, nFTB>>
           ELSE \E res \in SendResults(id), vres \in VerifyResults(id) :
                  LET f == Flush(l, conn, res, vres)
                  IN  /\ conn' = f.conn
                      /\ io' = Sent(f.msgs, f.fatal)
                      /\ nFTB' = IF res.kind = "ftb" THEN nFTB + 1 ELSE nFTB
                      /\ loop' = [loop EXCEPT ![id] =
                           IF f.loop.pc = "panic" THEN f.loop
                           ELSE IF TooBig(pw, f.loop.batch, frame, f.loop.maxPayload)
                           THEN [f.loop EXCEPT !.pc = "outer"]
                           ELSE [f.loop EXCEPT !.batch = Append(f.loop.batch, frame)]]
    /\ UNCHANGED <<nextGen, rawSender, lc, prod, nTicks, active>>

\* default: flushed = true with the flush left out.
InnerDefaultNoFlush(id) ==
    /\ loop[id].pc = "inner"
    /\ queue[id] = <<>>
    /\ loop' = [loop EXCEPT ![id].pc = "outer"]
    /\ io' = NoOutput
    /\ UNCHANGED <<conn, nextGen, rawSender, queue, lc, prod, nFTB, nTicks, active>>

\* default: flush() in the inner loop
InnerDefault(id) ==
    /\ loop[id].pc = "inner"
    /\ queue[id] = <<>>
    /\ \E res \in SendResults(id), vres \in VerifyResults(id) :
         LET f == Flush(loop[id], conn, res, vres)
         IN  /\ conn' = f.conn
             /\ io' = Sent(f.msgs, f.fatal)
             /\ nFTB' = IF res.kind = "ftb" THEN nFTB + 1 ELSE nFTB
             /\ loop' = [loop EXCEPT ![id] =
                  IF f.loop.pc = "panic" THEN f.loop ELSE [f.loop EXCEPT !.pc = "outer"]]
    /\ UNCHANGED <<nextGen, rawSender, queue, lc, prod, nTicks, active>>

\* The control plane records the remote's acknowledgement of a verify frame.
VerifyAck ==
    /\ nFTB > 0
    /\ ~conn.verified
    /\ conn' = [conn EXCEPT !.verified = TRUE]
    /\ io' = NoOutput
    /\ UNCHANGED <<nextGen, rawSender, queue, loop, lc, prod, nFTB, nTicks, active>>

\* ------------------------------------------------------------ Forward

\* The size test with the boundary excluded.
FitsStrict(frame, clientPMTU) == frame.len - EthernetOverhead < clientPMTU

\* len(frame.frame)-EthernetOverhead <= clientPMTU
Fits(frame, clientPMTU) == frame.len - EthernetOverhead <= clientPMTU

\* The stack test without the count of decoded layers.
UseStackNoLayers(stackFrag, dec) == stackFrag \/ dec = "nil"

\* stackFrag || dec == nil || len(dec.decoded) < 2
UseStack(stackFrag, dec) == stackFrag \/ dec = "nil" \/ dec = "eth"

\* Forward after its snapshot under the read lock: what it returns at once or
\* what it goes on to send, and where. c is the snapshot.
Dispatch(c, df, dec, frame) ==
    LET plan(pc, dir, frames, ret) ==
          [pc |-> pc,
           target |-> <<IF dir = "df" THEN c.forwardChanDF ELSE c.forwardChan, dir>>,
           pending |-> frames, ret |-> ret]
        nil == NoReturn
        tooBig == [err |-> "FrameTooBig", pmtu |-> c.clientPMTU, frame |-> frame]
    IN  IF c.forwardChan = 0 \/ c.forwardChanDF = 0
        THEN plan("idle", "ndf", <<>>, nil)
        ELSE IF df
        THEN IF Fits(frame, c.clientPMTU)
             THEN plan("send", "df", <<frame>>, nil)
             ELSE plan("idle", "df", <<>>, tooBig)
        ELSE IF UseStack(c.stackFrag, dec)
        THEN plan("send", "ndf", <<frame>>, nil)
        ELSE IF Fits(frame, c.clientPMTU)
        THEN plan("send", "df", <<frame>>, nil)
        ELSE LET fr == Fragment(c.clientPMTU, frame)
             IN  CASE fr.outcome = "panic" -> plan("panic", "df", <<>>, nil)
                   [] fr.outcome = "spin" -> plan("spin", "df", fr.segs, nil)
                   [] fr.segs = <<>> -> plan("idle", "df", <<>>, nil)
                   [] OTHER -> plan("send", "df", fr.segs, nil)

Calls == prod["p1"].n + prod["p2"].n

\* Lengths of the frames the producers hand in: a small one, of a length of
\* its own for each call, and those around the current clientPMTU.
FrameLens(clientPMTU) ==
    {n \in {60 + Calls, clientPMTU + EthernetOverhead, clientPMTU + EthernetOverhead + 1} :
       n >= EthernetOverhead + IPv4HeaderLen}

\* Forward(df, frame, dec) up to its first channel send, or to its return:
\* the four reads under conn.RLock(), then the dispatch on the values read.
\* Of the snapshot only clientPMTU is kept on (fragment's pmtu).
ForwardCall(p, df, dec, frame) ==
    /\ prod[p].pc = "idle"
    /\ Calls < MaxCalls
    /\ LET call == [fn |-> "Forward", df |-> df, dec |-> dec, frame |-> frame,
                    snap |-> [forwardChan |-> conn.forwardChan,
                              forwardChanDF |-> conn.forwardChanDF,
                              clientPMTU |-> conn.clientPMTU,
                              stackFrag |-> conn.stackFrag]]
           d == Dispatch(call.snap, df, dec, frame)
       IN  /\ prod' = [prod EXCEPT ![p] =
                IF d.pc \in {"idle", "panic"}
                THEN [IdleProducer EXCEPT !.pc = d.pc, !.n = prod[p].n + 1]
                ELSE [pc |-> d.pc, n |-> prod[p].n + 1,
                      clientPMTU |-> call.snap.clientPMTU,
                      target |-> d.target, pending |-> d.pending]]
           /\ io' = Called(call, d.ret)
    /\ UNCHANGED <<conn, nextGen, rawSender, queue, loop, lc, nFTB, nTicks, active>>

\* A Forward call by producer p, with any df and decoder and a frame around
\* the current clientPMTU. Producers are interchangeable: p2 makes its first
\* call after p1's.
Forward(p) ==
    /\ p = "p2" => prod["p1"].n > 0
    /\ \E df \in BOOLEAN, dec \in {"nil", "eth", "ip"}, n \in FrameLens(conn.clientPMTU) :
         /\ dec = "ip" => n - EthernetOverhead <= 65535
         /\ ForwardCall(p, df, dec,
                        [len |-> n, ihl |-> IPv4HeaderLen \div 4, off |-> 0,
                         mf |-> FALSE, kind |-> "frame"])

\* forwardChan <- frame, forwardChanDF <- frame, or forward(&segFrame): the
\* send blocks while the channel is full; after the last one Forward returns nil.
FwdEnqueue(p) ==
    /\ prod[p].pc = "send"
    /\ Len(queue[prod[p].target]) < ChannelSize
    /\ queue' = [queue EXCEPT ![prod[p].target] = Append(@, Head(prod[p].pending))]
    /\ prod' = [prod EXCEPT ![p] =
                  IF Len(prod[p].pending) = 1
                  THEN [IdleProducer EXCEPT !.n = prod[p].n]
                  ELSE [@ EXCEPT !.pending = Tail(@)]]
    /\ io' = NoOutput
    /\ UNCHANGED <<conn, nextGen, rawSender, loop, lc, nFTB, nTicks, active>>

\* forward(&segFrame) in a fragment loop that never advances.
FwdSpin(p) ==
    /\ prod[p].pc = "spin"
    /\ Len(queue[prod[p].target]) < ChannelSize
    /\ queue' = [queue EXCEPT ![prod[p].target] = Append(@, Head(prod[p].pending))]
    /\ io' = NoOutput
    /\ UNCHANGED <<conn, nextGen, rawSender, loop, lc, prod, nFTB, nTicks, active>>

\* ------------------------------------------------------------ specification

Next ==
    \/ \E c \in Callers : EnsureCheck(c)
    \/ \E c \in Callers : EnsureCreate(c)
    \/ \E c \in Callers : EnsureInstall(c)
    \/ \E c \in Callers : EnsureSpawn(c)
    \/ \E c \in Callers : EnsureSpawnDF(c)
    \/ \E c \in Callers : StopNull(c)
    \/ \E c \in Callers : StopCheck(c)
    \/ \E id \in LoopIds : LoopStop(id)
    \/ \E id \in LoopIds : DrainRecv(id)
    \/ \E id \in LoopIds : DrainDone(id)
    \/ \E id \in LoopIds : LoopTick(id)
    \/ \E id \in LoopIds : LoopFrame(id)
    \/ \E id \in LoopIds : InnerFrame(id)
    \/ \E id \in LoopIds : InnerDefault(id)
    \/ VerifyAck
    \/ \E p \in Producers : Forward(p)
    \/ \E p \in Producers : FwdEnqueue(p)
    \/ \E p \in Producers : FwdSpin(p)

Spec == Init /\ [][Next]_vars

\* The lifecycle calls and the forwarderLoops' reaction to them alone, with
\* no frame forwarded: every behaviour of it is a behaviour of the program in
\* which the producers are not scheduled.
NextLifecycle ==
    \/ \E c \in Callers : EnsureCheck(c)
    \/ \E c \in Callers : EnsureCreate(c)
    \/ \E c \in Callers : EnsureInstall(c)
    \/ \E c \in Callers : EnsureSpawn(c)
    \/ \E c \in Callers : EnsureSpawnDF(c)
    \/ \E c \in Callers : StopNull(c)
    \/ \E c \in Callers : StopCheck(c)
    \/ \E id \in LoopIds : LoopStop(id)
    \/ \E id \in LoopIds : DrainDone(id)

SpecConc == InitConc /\ [][NextLifecycle]_vars

\* ------------------------------------------------------------ the fragmenter on its own

\* Values of pmtu handed to fragment: one of ordinary size, and small ones
\* around the sizes at which a segment has room for 16, 8 or no payload bytes.
FragPMTUs == {1000, 50, 42, 41, 34, 33}

\* IPv4 header sizes: IHL 5 and 6.
HeaderSizes == {20, 24}

\* ip.FragOffset of the frame handed in, in 8-byte units.
FragOffsets == {0, 185}

\* IP payload sizes around the segment size for pmtu, around the size
\* from which Forward fragments, and those of a frame of 2500 bytes.
PayloadSizes(pmtu, headerSize) ==
    LET m == MaxSegmentSize(pmtu, headerSize)
    IN  {n \in {0, 1, m, m + 1, 2 * m, 2 * m + 5,
                pmtu - headerSize + 1, pmtu - headerSize + 9} : n >= 0}
        \cup (IF pmtu = 1000
              THEN {2500 - EthernetOverhead - headerSize, 2500 - headerSize}
              ELSE {})

\* The decoded IPv4 frames handed in: ip.Length = headerSize + payloadSize.
IPv4Frames(pmtu) ==
    UNION {{[len |-> EthernetOverhead + hs + n, ihl |-> hs \div 4, off |-> o,
             mf |-> f, kind |-> "frame"] :
              n \in PayloadSizes(pmtu, hs), o \in FragOffsets, f \in BOOLEAN} :
           hs \in HeaderSizes}

\* A connection whose forwarders have just been started by ensureForwarders
\* while its clientPMTU, lowered earlier, is one of FragPMTUs; the host stack
\* is not trusted to fragment.
InitFrag ==
    /\ \E cp \in FragPMTUs, pw \in BOOLEAN :
         /\ conn = [forwardChan |-> 1, forwardChanDF |-> 1,
                    stopForward |-> 1, stopForwardDF |-> 1,
                    clientPMTU |-> cp, verified |-> FALSE,
                    stackFrag |-> FALSE, usingPassword |-> pw]
         /\ loop = [id \in LoopIds |->
                      IF id = <<1, "ndf">> THEN StartLoop(DefaultPMTU)
                      ELSE IF id = <<1, "df">> THEN StartLoop(cp)
                      ELSE NoLoop]
    /\ nextGen = 1
    /\ rawSender = [g \in Gens |-> IF g = 1 THEN "open" ELSE "none"]
    /\ queue = [id \in LoopIds |-> <<>>]
    /\ io = NoOutput
    /\ lc = [c \in Callers |-> IF c = "c1" THEN EnsuredCaller ELSE IdleCaller]
    /\ prod = [p \in Producers |-> IdleProducer]
    /\ nFTB = MaxFTB
    /\ nTicks = 0
    /\ active = {"c1"}

\* fragment(eth, ip, pmtu, frame, forward) called on its own, once, forward
\* being the send on the DF channel: no snapshot of the connection is taken.
FragmentCall(p) ==
    /\ prod[p].pc = "idle"
    /\ Calls = 0
    /\ \E pmtu \in FragPMTUs :
         \E frame \in IPv4Frames(pmtu) :
           LET fr == Fragment(pmtu, frame)
               pc == CASE fr.outcome = "panic" -> "panic"
                       [] fr.outcome = "spin" -> "spin"
                       [] fr.segs = <<>> -> "idle"
                       [] OTHER -> "send"
           IN  /\ prod' = [prod EXCEPT ![p] =
                    IF pc \in {"idle", "panic"}
                    THEN [IdleProducer EXCEPT !.pc = pc, !.n = prod[p].n + 1]
                    ELSE [pc |-> pc, n |-> prod[p].n + 1, clientPMTU |-> pmtu,
                          target |-> <<conn.forwardChanDF, "df">>,
                          pending |-> fr.segs]]
               /\ io' = Called([fn |-> "fragment", df |-> FALSE, dec |-> "ip",
                                frame |-> frame,
                                snap |-> [NoSnapshot EXCEPT !.clientPMTU = pmtu]],
                               NoReturn)
    /\ UNCHANGED <<conn, nextGen, rawSender, queue, loop, lc, nFTB, nTicks, active>>

\* Forward(false, frame, dec) with a decoded IPv4 frame, as the one call made.
ForwardIPv4(p) ==
    \E frame \in IPv4Frames(conn.clientPMTU) :
      /\ Calls = 0
      /\ frame.len - EthernetOverhead <= 65535
      /\ ForwardCall(p, FALSE, "ip", frame)

NextFrag ==
    \/ FragmentCall("p1")
    \/ ForwardIPv4("p1")
    \/ \E p \in Producers : FwdEnqueue(p)
    \/ \E p \in Producers : FwdSpin(p)
    \/ \E id \in LoopIds : LoopFrame(id)
    \/ \E id \in LoopIds : InnerFrame(id)
    \/ \E id \in LoopIds : InnerDefault(id)

SpecFrag == InitFrag /\ [][NextFrag]_vars

\* ------------------------------------------------------------ properties

\* The step is producer p's start of a Forward call.
Starts(p) == prod[p].pc = "idle" /\ prod'[p].n = prod[p].n + 1

\* Every enqueue on a forward channel is some sending producer's, of the head
\* of its pending frames on its target channel, and the only change to the
\* queues in that step.
EnqueueIsProducers ==
    \A id \in LoopIds :
      Len(queue'[id]) > Len(queue[id]) =>
        \E p \in Producers :
          /\ prod[p].pc \in {"send", "spin"}
          /\ prod[p].target = id
          /\ queue' = [queue EXCEPT ![id] = Append(@, Head(prod[p].pending))]

\* A producer that has sent the last of its pending frames returns nil.
LastSendReturnsNil ==
    \A p \in Producers :
      (prod[p].pc = "send" /\ Len(prod[p].pending) = 1 /\ prod'[p] # prod[p]) =>
        /\ prod'[p].pc = "idle"
        /\ io'.ret.err = "nil"
        /\ queue'[prod[p].target] = Append(queue[prod[p].target], Head(prod[p].pending))

\* C1: a Forward call with df = true that read two non-null forward channels
\* and the value clientPMTU: if len(frame) - EthernetOverhead <= clientPMTU it
\* goes on to send the frame, whole, on the DF channel it read, and returns
\* nil once the send is done; otherwise it returns FrameTooBig with that
\* clientPMTU and the frame, sends nothing on either channel, emits no
\* segment and leaves the connection as it was.
C1_DFBranch ==
    [][/\ \A p \in Producers :
            (/\ Starts(p)
             /\ io'.call.df
             /\ io'.call.snap.forwardChan # 0
             /\ io'.call.snap.forwardChanDF # 0) =>
              LET frame == io'.call.frame
                  clientPMTU == io'.call.snap.clientPMTU
              IN  /\ clientPMTU = conn.clientPMTU
                  /\ IF frame.len - EthernetOverhead <= clientPMTU
                     THEN /\ prod'[p].pc = "send"
                          /\ prod'[p].target = <<io'.call.snap.forwardChanDF, "df">>
                          /\ prod'[p].pending = <<frame>>
                          /\ io'.ret.err = "nil"
                     ELSE /\ frame.len >= clientPMTU + EthernetOverhead + 1
                          /\ prod'[p].pc = "idle"
                          /\ prod'[p].pending = <<>>
                          /\ io'.ret = [err |-> "FrameTooBig", pmtu |-> clientPMTU,
                                        frame |-> frame]
                          /\ queue' = queue
                          /\ conn' = conn
       /\ EnqueueIsProducers
       /\ LastSendReturnsNil]_vars

\* C1 witness: a df call with a frame of exactly clientPMTU + EthernetOverhead
\* bytes, made after the PMTU was lowered, is about to send it on the DF channel.
C1_Witness ==
    \E p \in Producers :
      /\ io.call.df
      /\ io.call.snap.clientPMTU < DefaultPMTU
      /\ io.call.frame.len = io.call.snap.clientPMTU + EthernetOverhead
      /\ prod[p].pc = "send"
      /\ prod[p].target[2] = "df"
      /\ prod[p].pending = <<io.call.frame>>

\* C2: a Forward call with df = false that read two non-null forward
\* channels: if stackFrag is set, or there is no decoder, or fewer than two
\* layers were decoded, it sends the frame on the non-DF channel whatever its
\* size; otherwise, if len(frame) - EthernetOverhead <= clientPMTU, it sends
\* the whole frame on the DF channel; otherwise it runs the fragmenter and
\* sends the segments on the DF channel, none on the non-DF channel. In the
\* first two cases it returns nil after the send.
C2_NonDFRouting ==
    [][/\ \A p \in Producers :
            (/\ Starts(p)
             /\ ~io'.call.df
             /\ io'.call.snap.forwardChan # 0
             /\ io'.call.snap.forwardChanDF # 0) =>
              LET frame == io'.call.frame
                  snap == io'.call.snap
                  dec == io'.call.dec
              IN  IF snap.stackFrag \/ dec = "nil" \/ dec = "eth"
                  THEN /\ prod'[p].pc = "send"
                       /\ prod'[p].target = <<snap.forwardChan, "ndf">>
                       /\ prod'[p].pending = <<frame>>
                       /\ io'.ret.err = "nil"
                  ELSE IF frame.len - EthernetOverhead <= snap.clientPMTU
                  THEN /\ prod'[p].pc = "send"
                       /\ prod'[p].target = <<snap.forwardChanDF, "df">>
                       /\ prod'[p].pending = <<frame>>
                       /\ io'.ret.err = "nil"
                  ELSE /\ prod'[p].pending = Fragment(snap.clientPMTU, frame).segs
                       /\ prod'[p].pending # <<>> =>
                            prod'[p].target = <<snap.forwardChanDF, "df">>
                       /\ \A i \in 1..Len(prod'[p].pending) :
                            prod'[p].pending[i].kind = "seg"
       /\ \A id \in LoopIds :
            (Len(queue'[id]) > Len(queue[id]) /\ queue'[id][Len(queue'[id])].kind = "seg")
              => id[2] = "df"
       /\ EnqueueIsProducers
       /\ LastSendReturnsNil]_vars

\* C2 witness: on a connection without stackFrag a non-df call with a decoded
\* IPv4 frame one byte too long has fragmented it into two segments bound for
\* the DF channel.
C2_Witness ==
    \E p \in Producers :
      /\ ~io.call.df /\ io.call.dec = "ip" /\ ~io.call.snap.stackFrag
      /\ io.call.frame.len = io.call.snap.clientPMTU + EthernetOverhead + 1
      /\ prod[p].pc = "send"
      /\ prod[p].target[2] = "df"
      /\ Len(prod[p].pending) = 2
      /\ prod[p].pending[1].mf /\ ~prod[p].pending[2].mf

\* C3: while the lifecycle caller is back from stopForwarders and has made no
\* further call, both forward channels of the connection are nil, and a
\* Forward call started then, whatever df, frame and decoder, reads them as
\* nil, returns nil in the same step (it waits for nothing), and sends
\* nothing and changes no queue, no connection field and no forwarderLoop.
C3_StoppedForwardNoop ==
    /\ [](lc["c1"].pc = "stopped" => conn.forwardChan = 0 /\ conn.forwardChanDF = 0)
    /\ [][\A p \in Producers :
            (Starts(p) /\ lc["c1"].pc = "stopped") =>
              /\ io'.call.snap.forwardChan = 0
              /\ io'.call.snap.forwardChanDF = 0
              /\ io'.ret.err = "nil"
              /\ prod'[p].pc = "idle"
              /\ prod'[p].pending = <<>>
              /\ io'.sent = <<>>
              /\ queue' = queue
              /\ conn' = conn
              /\ loop' = loop
              /\ rawSender' = rawSender]_vars

\* C3 witness: after a stopForwarders that stopped a generation of
\* forwarders, a Forward call has just been made and has returned.
C3_Witness ==
    /\ lc["c1"].pc = "stopped"
    /\ nextGen >= 1
    /\ io.call.frame.len > 0
    /\ io.call.snap.forwardChan = 0
    /\ io.call.snap.forwardChanDF = 0
    /\ \A p \in Producers : prod[p].pc = "idle"

\* C4 as stated: every frame enqueued on a DF channel satisfies
\* len(frame) - EthernetOverhead <= conn.clientPMTU, the connection's value
\* in the step in which the enqueue takes effect.
C4_WithinCurrentPMTU ==
    [][\A id \in LoopIds :
         (id[2] = "df" /\ Len(queue'[id]) > Len(queue[id])) =>
           queue'[id][Len(queue'[id])].len - EthernetOverhead <= conn'.clientPMTU]_vars

\* C4, amended: every frame (whole frame or segment) enqueued on a DF channel
\* is enqueued by a Forward call and satisfies len(frame) - EthernetOverhead
\* <= clientPMTU for the value of conn.clientPMTU that this call read when it
\* started.
C4_WithinReadPMTU ==
    [][/\ \A p \in Producers :
            (Starts(p) /\ prod'[p].pc \in {"send", "spin"}) =>
              prod'[p].clientPMTU = conn.clientPMTU
       /\ \A id \in LoopIds :
            (id[2] = "df" /\ Len(queue'[id]) > Len(queue[id])) =>
              \E p \in Producers :
                /\ prod[p].pc \in {"send", "spin"}
                /\ prod[p].target = id
                /\ queue'[id] = Append(queue[id], Head(prod[p].pending))
                /\ Head(prod[p].pending).len - EthernetOverhead <= prod[p].clientPMTU]_vars

\* C4 witness: a producer has enqueued the first segment of a fragmented
\* frame on the DF channel and holds another, and conn.clientPMTU has been
\* lowered since the producer read it.
C4_Witness ==
    \E p \in Producers :
      /\ prod[p].pc = "send"
      /\ prod[p].target[2] = "df"
      /\ prod[p].pending # <<>>
      /\ Head(prod[p].pending).off > 0
      /\ queue[prod[p].target] # <<>>
      /\ Head(queue[prod[p].target]).kind = "seg"
      /\ conn.clientPMTU < prod[p].clientPMTU

\* C5 as stated: in every reachable state conn.clientPMTU >= MinPMTU.
C5_ClientPMTUAtLeastMin == conn.clientPMTU >= MinPMTU

\* C6 as stated: in every reachable state at most one forwarderLoop per
\* direction is serving its channels (it has been started and has not yet
\* received its stop signal).
C6_OneLoopPerDirection ==
    \A d \in Dirs :
      \A g, h \in Gens :
        (loop[<<g, d>>].pc \in {"outer", "inner"} /\ loop[<<h, d>>].pc \in {"outer", "inner"})
          => g = h

\* C7, the state that its "eventually" excludes: no producer is left with a
\* send to make on a forward channel that is full and whose forwarderLoop has
\* drained it and exited, for nothing receives from that channel again.
C7_NoProducerStuck ==
    \A p \in Producers :
      ~(/\ prod[p].pc = "send"
        /\ loop[prod[p].target].pc = "exited"
        /\ Len(queue[prod[p].target]) = ChannelSize)

\* C8: every datagram a forwarderLoop hands to its sender, a batch of data
\* frames or a PMTU verification datagram, is at most maxPayload +
\* PacketOverhead bytes long, maxPayload being the loop's value when it sends.
C8_DatagramWithinMaxPayload ==
    \A i \in 1..Len(io.sent) :
      io.sent[i].len <= io.sent[i].maxPayload + PacketOverhead(conn.usingPassword)

\* C8 witness: a flush sent a batch of data frames, got FrameTooBig, and
\* sent the verification datagrams, which fill the lowered maxPayload.
C8_Witness ==
    /\ Len(io.sent) = PMTUVerifyCopies + 1
    /\ io.sent[1].frames # <<>>
    /\ io.sent[1].frames[1].kind # "verify"
    /\ io.sent[2].frames[1].kind = "verify"
    /\ io.sent[2].maxPayload < io.sent[1].maxPayload
    /\ io.sent[2].len = io.sent[2].maxPayload

\* C9: a forwarderLoop at its outer select has an empty batch, and a datagram
\* that carries a verification frame carries nothing else.
C9_EmptyBatchAtOuterSelect ==
    /\ \A id \in LoopIds : loop[id].pc = "outer" => loop[id].batch = <<>>
    /\ \A i \in 1..Len(io.sent) :
         (\E k \in 1..Len(io.sent[i].frames) : io.sent[i].frames[k].kind = "verify")
           => Len(io.sent[i].frames) = 1

\* C9 witness: a forwarderLoop is back at its outer select with the verify
\* timer armed, having just flushed a batch of two data frames and sent the
\* verification datagrams.
C9_Witness ==
    \E id \in LoopIds :
      /\ loop[id].pc = "outer"
      /\ loop[id].tick
      /\ Len(io.sent) = PMTUVerifyCopies + 1
      /\ Len(io.sent[1].frames) = 2

\* C10: an ensureForwarders call made while both forward channels exist
\* returns nil in its first step and leaves the connection's four handles,
\* the raw senders, the forwarderLoops and the queues as they were.
C10_EnsureIdempotent ==
    [][\A c \in Callers :
         (/\ Between(c)
          /\ conn.forwardChan # 0 /\ conn.forwardChanDF # 0
          /\ lc'[c] # lc[c]
          /\ lc'[c].pc # "check") =>
           /\ lc'[c] = EnsuredCaller
           /\ io'.ret.err = "nil"
           /\ conn' = conn
           /\ nextGen' = nextGen
           /\ rawSender' = rawSender
           /\ loop' = loop
           /\ queue' = queue]_vars

\* C10 witness: the second caller is back from an ensureForwarders that
\* found the channels of the one generation there is, which the first caller,
\* still inside its own call, had installed.
C10_Witness ==
    /\ lc["c2"].pc = "ensured"
    /\ lc["c1"].pc = "spawn"
    /\ nextGen = 1
    /\ conn.forwardChan = 1

\* C11: in every state (each is one in which the connection lock is free to
\* take) conn.forwardChan and conn.forwardChanDF are both nil or both non-nil,
\* and of the same generation; so are the two handles of every snapshot that
\* Forward takes under the read lock.
C11_BothOrNeither ==
    /\ conn.forwardChan = conn.forwardChanDF
    /\ (conn.forwardChan = 0) <=> (conn.forwardChanDF = 0)
    /\ (io.call.snap.forwardChan = 0) <=> (io.call.snap.forwardChanDF = 0)

\* C11 witness: after a stop and a second ensureForwarders, a Forward call
\* has just read the two channels of the second generation.
C11_Witness ==
    /\ conn.forwardChan = 2
    /\ conn.forwardChanDF = 2
    /\ io.call.frame.len > 0
    /\ io.call.snap.forwardChan = 2
    /\ io.call.snap.forwardChanDF = 2

\* The step is a Forward(df = false) call by p with a decoded IPv4 frame of
\* 2500 bytes (as a frame, or as an IP packet) with a 20-byte header and
\* fragment offset 0, on a connection with both channels, stackFrag false
\* and clientPMTU 1000.
C12Case(p) ==
    /\ Starts(p)
    /\ io'.call.fn = "Forward"
    /\ ~io'.call.df /\ io'.call.dec = "ip"
    /\ io'.call.snap.forwardChan # 0 /\ io'.call.snap.forwardChanDF # 0
    /\ ~io'.call.snap.stackFrag
    /\ io'.call.snap.clientPMTU = 1000
    /\ io'.call.frame.len \in {2500, 2500 + EthernetOverhead}
    /\ io'.call.frame.ihl = 5 /\ io'.call.frame.off = 0

\* The call goes on to send exactly three segments on the DF channel, with
\* fragment offsets 0, second and third, MoreFragments set on the first two
\* and the frame's own flag on the third.
C12Segments(p, second, third) ==
    /\ prod'[p].pc = "send"
    /\ prod'[p].target = <<io'.call.snap.forwardChanDF, "df">>
    /\ Len(prod'[p].pending) = 3
    /\ prod'[p].pending[1].off = 0
    /\ prod'[p].pending[2].off = second
    /\ prod'[p].pending[3].off = third
    /\ prod'[p].pending[1].mf /\ prod'[p].pending[2].mf
    /\ prod'[p].pending[3].mf = io'.call.frame.mf

\* C12 as stated: in that case the three segments have the fragment offsets
\* 0, 122 and 244.
C12_Offsets122 ==
    [][\A p \in Producers : C12Case(p) => C12Segments(p, 122, 244)]_vars

\* C12, amended: in that case the three segments have the fragment offsets
\* 0, 120 and 240, the first two carrying 960 payload bytes each, and they
\* are enqueued on the DF channel in that order.
C12_Offsets120 ==
    [][/\ \A p \in Producers :
            C12Case(p) =>
              /\ C12Segments(p, 120, 240)
              /\ \A i \in 1..2 :
                   prod'[p].pending[i].len = EthernetOverhead + 20 + 960
              /\ prod'[p].pending[3].len =
                   io'.call.frame.len - 2 * 960
       /\ EnqueueIsProducers]_vars

\* C12 witness: the call was made with the 2500-byte frame and its third
\* segment, of offset 240, waits to be sent after the first two.
C12_Witness ==
    /\ io.call.fn = "Forward"
    /\ io.call.frame.len = 2500
    /\ io.call.snap.clientPMTU = 1000
    /\ io.call.snap.forwardChanDF # 0
    /\ prod["p1"].pc = "send"
    /\ Len(prod["p1"].pending) = 3
    /\ prod["p1"].pending[3].off = 240

\* The step is p's start of a call in which fragment runs: fragment called on
\* its own, or Forward(df = false) with a decoded IPv4 frame that does not
\* fit clientPMTU, on a connection with both channels and stackFrag false.
InvokesFragment(p) ==
    /\ Starts(p)
    /\ ~io'.call.df /\ io'.call.dec = "ip"
    /\ \/ io'.call.fn = "fragment"
       \/ /\ io'.call.fn = "Forward"
          /\ io'.call.snap.forwardChan # 0 /\ io'.call.snap.forwardChanDF # 0
          /\ ~io'.call.snap.stackFrag
          /\ io'.call.frame.len - EthernetOverhead > io'.call.snap.clientPMTU

\* C13: when fragment runs with max_segment_size = (pmtu - EthernetOverhead
\* - IHL*4) rounded down to a multiple of 8 >= 8, then the segments it emits,
\* each placed at byte frag_offset*8 - original_offset*8, hold the bytes of
\* the original IP payload of that position, begin at 0, follow one another
\* without overlap or gap and end at the payload's size; every segment but
\* the last carries max_segment_size bytes and MoreFragments, the last one
\* the original flag; a payload of max_segment_size bytes gives one segment;
\* and the segments are sent in that order.
C13_ReassemblyIsIdentity ==
    [][/\ \A p \in Producers :
            LET frame == io'.call.frame
                headerSize == frame.ihl * 4
                m == ((io'.call.snap.clientPMTU - EthernetOverhead - headerSize) \div 8) * 8
                payloadSize == frame.len - EthernetOverhead - headerSize
                segs == prod'[p].pending
                n == Len(segs)
                size(i) == segs[i].len - EthernetOverhead - headerSize
                pos(i) == segs[i].off * 8 - frame.off * 8
            IN  (InvokesFragment(p) /\ m >= 8) =>
                  /\ prod'[p].pc = IF payloadSize > 0 THEN "send" ELSE "idle"
                  /\ n = 0 <=> payloadSize <= 0
                  /\ n > 0 => pos(1) = 0 /\ pos(n) + size(n) = payloadSize
                  /\ \A i \in 1..n :
                       /\ segs[i].start = pos(i)
                       /\ segs[i].ihl = frame.ihl
                       /\ size(i) > 0
                       /\ i < n => /\ size(i) = m
                                   /\ segs[i].mf
                                   /\ pos(i + 1) = pos(i) + size(i)
                       /\ i = n => size(i) <= m /\ segs[i].mf = frame.mf
                  /\ payloadSize = m => n = 1
       /\ EnqueueIsProducers]_vars

\* C13 witness: fragment, called with a frame that is itself a fragment (offset
\* 185, MoreFragments set), has emitted three segments, the last with
\* MoreFragments as in the original.
C13_Witness ==
    /\ io.call.frame.off = 185 /\ io.call.frame.mf
    /\ io.call.fn = "fragment"
    /\ prod["p1"].pc = "send"
    /\ Len(prod["p1"].pending) = 3
    /\ prod["p1"].pending[1].off = 185
    /\ prod["p1"].pending[2].off > 185
    /\ prod["p1"].pending[3].mf

\* The step is a flush whose Send returned FrameTooBigError.
FlushGotFrameTooBig == nFTB' = nFTB + 1

TimerFires == nTicks' = nTicks + 1

\* What the claim says of the tick of loop id.
TickAsStated(id) ==
    /\ loop[id].pc = "outer" /\ loop[id].tick
    /\ id[2] = "df" /\ nFTB > 0
    /\ IF ~conn.verified
       THEN /\ loop'[id].clientPMTU = loop[id].clientPMTU - 10
            /\ conn'.clientPMTU = loop'[id].clientPMTU
            /\ Len(io'.sent) = 10
            /\ \A i \in 1..10 :
                 /\ Len(io'.sent[i].frames) = 1
                 /\ io'.sent[i].frames[1].kind = "verify"
                 /\ io'.sent[i].frames[1].len = loop'[id].clientPMTU + EthernetOverhead
            /\ loop'[id].tick
       ELSE /\ loop'[id].clientPMTU = loop[id].clientPMTU
            /\ conn' = conn
            /\ io'.sent = <<>>
            /\ ~loop'[id].tick

\* The timer of loop id becomes armed in no step but one in which that loop
\* wrote its clientPMTU to the connection.
ArmedOnlyAfterUpdate(id) ==
    (loop'[id].tick /\ (~loop[id].tick \/ TimerFires)) =>
        /\ conn'.clientPMTU = loop'[id].clientPMTU /\ ~conn'.verified
        /\ FlushGotFrameTooBig \/ TimerFires

\* C15: each time the verify timer fires: if clientPMTU is not verified, it
\* becomes exactly 10 less, 10 verify datagrams of the new size are sent and
\* the timer is armed again; if it is verified, clientPMTU stays, nothing is
\* sent and the timer stays disarmed; the timer is armed only after a
\* clientPMTU update, so no tick fires in a loop that has not set clientPMTU.
C15_TickBehaviour ==
    [][/\ TimerFires => \E id \in LoopIds : TickAsStated(id)
       /\ \A id \in LoopIds : ArmedOnlyAfterUpdate(id)]_vars

\* The datagram holds frames of the forward channel, not the verify frame.
IsDataBatch(d) == d.frames # <<>> /\ d.frames[1].kind # "verify"

\* ENOBUFS for the data batch d of loop id is swallowed: d is not sent again
\* and its frames are gone, maxPayload and clientPMTU stay, and the loop is
\* back at one of its selects.
Swallowed(id, d) ==
    /\ loop[id].pc = "inner" /\ loop[id].batch = d.frames
    /\ io'.sent = <<d>>
    /\ loop'[id].batch = <<>> \/ (queue[id] # <<>> /\ loop'[id].batch = <<Head(queue[id])>>)
    /\ loop'[id].maxPayload = loop[id].maxPayload
    /\ loop'[id].clientPMTU = loop[id].clientPMTU
    /\ conn' = conn
    /\ loop'[id].pc \in {"outer", "inner"}

\* FrameTooBig{pmtu} has lowered the PMTU of loop id.
Reduced(id, pmtu) ==
    /\ loop[id].pc \in {"outer", "inner"}
    /\ loop'[id].maxPayload = pmtu - UDPOverhead
    /\ loop'[id].clientPMTU = loop'[id].maxPayload - PacketOverhead(conn.usingPassword)
                              - FrameOverhead - EthernetOverhead
    /\ conn'.clientPMTU = loop'[id].clientPMTU

\* What the claim says of the error Send returned for datagram d.
ErrorAsStated(d) ==
    /\ d.res.kind = "enobufs" =>
          /\ ~io'.fatal
          /\ IsDataBatch(d) => \E id \in LoopIds : Swallowed(id, d)
    /\ d.res.kind = "ftb" => \E id \in LoopIds : Reduced(id, d.res.pmtu)
    /\ d.res.kind = "error" => io'.fatal

\* C16: for every error the sender returns to a loop: ENOBUFS is swallowed
\* (the frames of that datagram are dropped, maxPayload and clientPMTU stay,
\* nothing fatal is raised, the loop goes on), FrameTooBig lowers the PMTU,
\* and any other error is reported as fatal for the connection.
C16_EveryErrorHandled ==
    [][\A i \in 1..Len(io'.sent) : ErrorAsStated(io'.sent[i])]_vars

\* The frames of loop id's forward channel that it has not yet given to its
\* sender, oldest first: those in its encryptor, then those in the channel.
Pipeline(id) == loop[id].batch \o queue[id]

IsData(f) == f.kind # "verify"

\* The forwarded frames among those the step handed to a sender, in the
\* order of the datagrams and, within a datagram, of the positions.
DataSent ==
    IF io'.sent = <<>> THEN <<>> ELSE SelectSeq(io'.sent[1].frames, IsData)

\* Loop id's step keeps the order of its channel: it hands to the sender the
\* oldest frames (sent), in their order, drops at most the one that follows
\* them (dropped), and keeps the others as they were. A dropped frame is one
\* that is too big for an empty datagram, or one drained after the stop.
TakesOldestFirst(id, sent) ==
    \E dropped \in {<<>>} \cup {<<queue[id][1]>> : x \in {1} \cap DOMAIN queue[id]} :
       /\ Pipeline(id) = sent \o dropped \o Pipeline(id)'
       /\ dropped # <<>> =>
            \/ loop[id].pc = "drain"
            \/ TooBig(conn'.usingPassword, <<>>, dropped[1], loop'[id].maxPayload)

\* A step either adds one frame behind the others of a channel, or is a
\* loop's step on what its channel holds.
FifoStep ==
    /\ \A i \in 2..Len(io'.sent) : SelectSeq(io'.sent[i].frames, IsData) = <<>>
    /\ \E a \in LoopIds :
         /\ \/ \E f \in {Pipeline(a)'[Len(Pipeline(a)')] : x \in {1} \cap DOMAIN Pipeline(a)'} :
                 Pipeline(a)' = Append(Pipeline(a), f) /\ DataSent = <<>>
            \/ TakesOldestFirst(a, DataSent)
         /\ \A id \in LoopIds \ {a} : Pipeline(id)' = Pipeline(id)

\* No frame is in the channel of a loop that has returned: such a frame can
\* be neither sent, nor dropped, nor drained any more.
NoneLeftBehind == \A id \in LoopIds : loop[id].pc = "exited" => queue[id] = <<>>

\* C17: per queue, frames reach the sender in FIFO order: of two frames of a
\* queue that are both handed to the sender, the one enqueued first is in an
\* earlier datagram or at an earlier position of the same datagram; no frame
\* is handed to the sender twice; and a frame that is not sent was dropped as
\* too big alone, lost with a failed flush, or drained at stop.
C17_FifoAndAccounted == []NoneLeftBehind /\ [][FifoStep]_vars

\* The DF loop id takes from its channel a frame that Forward would accept
\* for the DF channel with the connection's clientPMTU as it is now.
TakesAcceptedFrame(id) ==
    /\ id[2] = "df" /\ loop[id].pc \in {"outer", "inner"}
    /\ queue[id] # <<>> /\ queue'[id] = Tail(queue[id])
    /\ Fits(Head(queue[id]), conn.clientPMTU)

\* The frame taken is the last one of the loop's encryptor after the step.
Appended(id) ==
    /\ loop'[id].batch # <<>>
    /\ loop'[id].batch[Len(loop'[id].batch)] = Head(queue[id])

\* C18: every frame the dispatcher accepts for the DF queue (len(frame) -
\* EthernetOverhead <= clientPMTU at its check) fits alone in an empty batch
\* of the DF loop, which never drops it as too big: from the start of the
\* loop, with pmtu = clientPMTU and maxPayload = pmtu - UDPOverhead, and after
\* every FrameTooBig and verify-tick update.
C18_AcceptedFrameFits ==
    [][\A id \in LoopIds : TakesAcceptedFrame(id) => Appended(id)]_vars

\* The forwarderLoop that holds the stop channel caller c is sending on.
StopReceiver(c) == <<lc[c].target, IF lc[c].pc = "send" THEN "ndf" ELSE "df">>

\* C19: in any sequence of ensureForwarders and stopForwarders calls every
\* stopForwarders call returns in the end, each of its sends on the
\* unbuffered stop channels being received by a live forwarderLoop, also in a
\* second stopForwarders made after the loops have exited. Stated as the
\* state this excludes: no caller is at a send on a stop channel whose
\* forwarderLoop has received its stop, returned or panicked, for nothing
\* receives from that channel again.
C19_StopSendHasReceiver ==
    \A c \in Callers :
      lc[c].pc \in {"send", "sendDF"} =>
        loop[StopReceiver(c)].pc \in {"none", "outer", "inner"}

\* C20: whenever Forward invokes fragment (df = false, stack not trusted,
\* IPv4 decoded, len(frame) - EthernetOverhead > clientPMTU), fragment comes
\* to an end after a finite number of segments, ceil(payloadSize /
\* maxSegmentSize) of them, for every clientPMTU the connection can hold,
\* those with clientPMTU - EthernetOverhead - IHL*4 below 8 included.
C20_FragmentTerminates ==
    [][\A p \in Producers :
         LET frame == io'.call.frame
             headerSize == frame.ihl * 4
             maxSegmentSize == MaxSegmentSize(io'.call.snap.clientPMTU, headerSize)
             payloadSize == frame.len - EthernetOverhead - headerSize
         IN  (InvokesFragment(p) /\ io'.call.fn = "Forward") =>
               /\ prod'[p].pc \in {"send", "idle"}
               /\ maxSegmentSize > 0
               /\ Len(prod'[p].pending) = (payloadSize + maxSegmentSize - 1) \div maxSegmentSize]_vars

====
